---- MODULE Spec2Model ----
(***************************************************************************)
(* Model of app.py (Creative Director AI Hilfstool).                       *)
(*                                                                         *)
(* A Python str is a sequence of atoms: single characters, or a fixed      *)
(* literal of the source kept as one chunk.  An Optional value is a record *)
(* [some, val]; None is the record with some = FALSE.                      *)
(*                                                                         *)
(* Spec      : page runs of main() in one browser session.                 *)
(* SpecPdf   : calls of the cached extract_pdf_data, one at a time, while  *)
(*             time passes and the file comes and goes.                    *)
(* SpecRace  : several sessions inside extract_pdf_data at once, each a    *)
(*             step of the body at a time, after the entry has expired.    *)
(***************************************************************************)
EXTENDS Integers, Sequences, FiniteSets, TLC

VARIABLES
  API_KEY,        \* module constant API_KEY (Optional[str]), fixed per process
  clientOK,       \* whether genai.configure / GenerativeModel succeed (fixed per process)
  pdfFile,        \* bytes of the file at PDF_PATH, None when it cannot be opened
  session_state,  \* st.session_state of the session
  ui,             \* elements rendered by the last script run, in order
  stats,          \* counters over the whole session
  last,           \* what the last handler did (inputs, invocation, outcome)
  document,       \* the document at the path given to extract_pdf_data
  cache,          \* the entry st.cache_data keeps for that path
  now,            \* the clock, in seconds
  pdf,            \* the calls of extract_pdf_data so far, the last two in detail
  sess,           \* per session: where its call of extract_pdf_data stands
  frame           \* the local variables of the calls in progress

appVars == <<API_KEY, clientOK, pdfFile, session_state, ui, stats, last>>
pdfVars == <<document, cache, now, pdf>>
raceVars == <<sess, frame>>
vars == <<API_KEY, clientOK, pdfFile, session_state, ui, stats, last,
          document, cache, now, pdf, sess, frame>>

---------------------------------------------------------------------------
(* Python values *)

None == [some |-> FALSE, val |-> <<>>]
Some(s) == [some |-> TRUE, val |-> s]
\* bool(v) of an Optional[str]: None and "" are falsy
Truthy(v) == v.some /\ v.val # <<>>

\* s * n for a str s
RECURSIVE Repeat(_, _)
Repeat(s, n) == IF n <= 0 THEN <<>> ELSE s \o Repeat(s, n - 1)

---------------------------------------------------------------------------
(* Bounds *)

MaxRuns == 3
MaxDescLen == 21

MIN_DESCRIPTION_LEN == 20

PDF_PATH == <<"Oeffentliches_Gestalten.pdf">>
PDF_BYTES == <<"%PDF-bytes">>

\* what the user can type: nothing, or a text whose length is around the gate
DescLens == {0} \cup ((MIN_DESCRIPTION_LEN - 2)..MaxDescLen)
Descriptions == { Repeat(<<"x">>, n) : n \in DescLens }

\* text payloads the service can answer with
Responses == { <<>>, <<"## Result\nOK">> }

\* what the external service does with one request
ServiceOutcomes ==
  { [kind |-> "ok", text |-> t] : t \in Responses }
    \cup { [kind |-> "request_raises", text |-> <<>>],
           [kind |-> "text_raises", text |-> <<>>] }

---------------------------------------------------------------------------
(* UI elements *)

Element(kind, body) == [kind |-> kind, body |-> body]

WARN_TOO_SHORT ==
  Element("warning", <<"Bitte geben Sie eine aussagekräftige Problembeschreibung ein (mind. 20 Zeichen).">>)
ERR_KEY_MISSING_MAIN ==
  Element("error", <<"Google API-Schlüssel fehlt. Bitte konfigurieren.">>)
ERR_KEY_NOT_CONFIGURED ==
  Element("error", <<"Google API-Schlüssel nicht konfiguriert. Bitte .env-Datei prüfen.">>)
ERR_NO_SUGGESTIONS ==
  Element("error", <<"Es konnten keine Vorschläge generiert werden. Überprüfen Sie die Fehlermeldungen.">>)
ERR_PDF_NOT_LOADED ==
  Element("error", <<"PDF konnte nicht geladen werden. Die Anwendung kann nicht fortfahren.">>)
ErrApi(detail) ==
  Element("error", <<"Fehler bei der Kommunikation mit der Gemini API: ">> \o detail)
ErrLoad(detail) ==
  Element("error", <<"Fehler beim Laden der PDF: ">> \o detail)
ResultCard(text) ==
  Element("markdown", <<"<div class=\"result-card\">">> \o text \o <<"</div>">>)
FORM == Element("form", <<"problem_input_form">>)
RESULT_HEADER == Element("subheader", <<"Ergebnis der Analyse">>)
FOOTER == Element("footer", <<>>)
UNCAUGHT == Element("exception", <<>>)

Shown(e) == \E i \in 1..Len(ui) : ui[i] = e
ShownKind(k) == \E i \in 1..Len(ui) : ui[i].kind = k
IsResultCard(e) ==
  /\ e.kind = "markdown"
  /\ Len(e.body) >= 2
  /\ e.body[1] = "<div class=\"result-card\">"

---------------------------------------------------------------------------
(* get_ai_suggestions *)

PROMPT_HEAD == <<"...PROBLEMBESCHREIBUNG DES BENUTZERS:\n\"">>
PROMPT_TAIL == <<"\"\n\nAUFGABE: ... ANTWORTFORMAT: ...">>
Prompt(problem_description) == PROMPT_HEAD \o problem_description \o PROMPT_TAIL

\* mutant: a failed request is sent a second time
RetryRequest(problem_description, svc) ==
  IF ~clientOK \/ ~pdfFile.some
    THEN [exc |-> TRUE, detail |-> <<"setup">>, requests |-> 0,
          sent |-> None, value |-> <<>>]
  ELSE IF svc.kind = "ok"
    THEN [exc |-> FALSE, detail |-> <<>>, requests |-> 1,
          sent |-> None, value |-> svc.text]
  ELSE [exc |-> TRUE, detail |-> <<"request failed">>, requests |-> 2,
        sent |-> None, value |-> <<>>]

\* the body of the try block: the first failing step ends it
TryRequest(problem_description, svc) ==
  IF ~clientOK
    THEN [exc |-> TRUE, detail |-> <<"configure">>, requests |-> 0,
          sent |-> None, value |-> <<>>]
  ELSE IF ~pdfFile.some
    THEN [exc |-> TRUE, detail |-> <<"No such file">>, requests |-> 0,
          sent |-> None, value |-> <<>>]
  ELSE LET contents == Some(<<"application/pdf">> \o pdfFile.val \o Prompt(problem_description))
       IN IF svc.kind = "request_raises"
            THEN [exc |-> TRUE, detail |-> <<"request failed">>, requests |-> 1,
                  sent |-> contents, value |-> <<>>]
          ELSE IF svc.kind = "text_raises"
            THEN [exc |-> TRUE, detail |-> <<"no text in response">>, requests |-> 1,
                  sent |-> contents, value |-> <<>>]
          ELSE [exc |-> FALSE, detail |-> <<>>, requests |-> 1,
                sent |-> contents, value |-> svc.text]

\* mutant: the exception leaves the function
Reraised(r) ==
  [ret |-> None, shown |-> <<>>, requests |-> r.requests, raised |-> TRUE]

\* except Exception as e: st.error(...); return None
Caught(r) ==
  [ret |-> None, shown |-> <<ErrApi(r.detail)>>, requests |-> r.requests,
   raised |-> FALSE]

\* mutant: the credential guard of lines 130-132 is missing
UnguardedSuggestions(problem_description, svc) ==
  LET r == TryRequest(problem_description, svc)
  IN IF r.exc THEN Caught(r)
     ELSE [ret |-> Some(r.value), shown |-> <<>>, requests |-> r.requests,
           raised |-> FALSE]

get_ai_suggestions(problem_description, svc) ==
  IF ~Truthy(API_KEY)
    THEN [ret |-> None, shown |-> <<ERR_KEY_NOT_CONFIGURED>>, requests |-> 0,
          raised |-> FALSE]
  ELSE LET r == TryRequest(problem_description, svc)
       IN IF r.exc THEN Caught(r)
          ELSE [ret |-> Some(r.value), shown |-> <<>>, requests |-> r.requests,
                raised |-> FALSE]

---------------------------------------------------------------------------
(* initialize_pdf_data and main *)

\* mutant: a failed load is reported but does not stop the run
LoadFailureIgnored(ss) ==
  IF ~ss.pdf_initialized
    THEN IF ~clientOK \/ ~pdfFile.some
           THEN [ok |-> TRUE, ss |-> ss, shown |-> <<ErrLoad(<<"load failed">>)>>]
         ELSE [ok |-> TRUE,
               ss |-> [pdf_initialized |-> TRUE, pdf_data |-> pdfFile],
               shown |-> <<>>]
    ELSE [ok |-> TRUE, ss |-> ss, shown |-> <<>>]

initialize_pdf_data(ss) ==
  IF ~ss.pdf_initialized
    THEN IF ~clientOK
           THEN [ok |-> FALSE, ss |-> ss, shown |-> <<ErrLoad(<<"configure">>)>>]
         ELSE IF ~pdfFile.some
           THEN [ok |-> FALSE, ss |-> ss, shown |-> <<ErrLoad(<<"No such file">>)>>]
         ELSE [ok |-> TRUE,
               ss |-> [pdf_initialized |-> TRUE, pdf_data |-> pdfFile],
               shown |-> <<>>]
    ELSE [ok |-> TRUE, ss |-> ss, shown |-> <<>>]

\* mutant: the gate rejects 20 characters too
TooShortInclusive(problem_description) ==
  problem_description = <<>> \/ Len(problem_description) <= MIN_DESCRIPTION_LEN

\* the gate of line 461
TooShort(problem_description) ==
  problem_description = <<>> \/ Len(problem_description) < MIN_DESCRIPTION_LEN

\* lines 470-477: what main renders for the value get_ai_suggestions returned
RenderResult(suggestions) ==
  <<RESULT_HEADER>> \o
    (IF Truthy(suggestions) THEN <<ResultCard(suggestions.val)>>
                            ELSE <<ERR_NO_SUGGESTIONS>>)

NoCall == [ret |-> None, shown |-> <<>>, requests |-> 0, raised |-> FALSE]

\* lines 460-477
Process(submit_button, problem_description, svc) ==
  IF ~submit_button
    THEN [shown |-> <<>>, invoked |-> FALSE, call |-> NoCall]
  ELSE IF TooShort(problem_description)
    THEN [shown |-> <<WARN_TOO_SHORT>>, invoked |-> FALSE, call |-> NoCall]
  ELSE IF ~Truthy(API_KEY)
    THEN [shown |-> <<ERR_KEY_MISSING_MAIN>>, invoked |-> FALSE, call |-> NoCall]
  ELSE LET c == get_ai_suggestions(problem_description, svc)
       IN IF c.raised
            THEN [shown |-> c.shown \o <<UNCAUGHT>>, invoked |-> TRUE, call |-> c]
            ELSE [shown |-> c.shown \o RenderResult(c.ret), invoked |-> TRUE, call |-> c]

main(submit_button, problem_description, svc) ==
  LET init == initialize_pdf_data(session_state)
  IN IF ~init.ok
       THEN [ui |-> init.shown \o <<ERR_PDF_NOT_LOADED, FOOTER>>, ss |-> init.ss,
             form |-> FALSE, submitted |-> FALSE, invoked |-> FALSE, call |-> NoCall]
     ELSE LET p == Process(submit_button, problem_description, svc)
          IN [ui |-> init.shown \o <<FORM>> \o p.shown
                       \o (IF p.call.raised THEN <<>> ELSE <<FOOTER>>),
              ss |-> init.ss, form |-> TRUE, submitted |-> submit_button,
              invoked |-> p.invoked, call |-> p.call]

---------------------------------------------------------------------------
(* str operations used by extract_pdf_data *)

Digit == {"0", "1", "2", "3", "4", "5", "6", "7", "8", "9"}
Whitespace == {" ", "\t", "\n", "\r"}
DigitChar(d) ==
  CASE d = 0 -> "0" [] d = 1 -> "1" [] d = 2 -> "2" [] d = 3 -> "3" [] d = 4 -> "4"
    [] d = 5 -> "5" [] d = 6 -> "6" [] d = 7 -> "7" [] d = 8 -> "8" [] OTHER -> "9"

\* str(n) for n >= 0, as in an f-string
RECURSIVE IntToStr(_)
IntToStr(n) ==
  IF n < 10 THEN <<DigitChar(n)>> ELSE IntToStr(n \div 10) \o <<DigitChar(n % 10)>>

\* s.split(sep) for a one-character sep
RECURSIVE Split(_, _)
Split(s, sep) ==
  IF \A i \in 1..Len(s) : s[i] # sep
    THEN <<s>>
    ELSE LET k == CHOOSE i \in 1..Len(s) :
                    s[i] = sep /\ \A j \in 1..(i - 1) : s[j] # sep
         IN <<SubSeq(s, 1, k - 1)>> \o Split(SubSeq(s, k + 1, Len(s)), sep)

\* s.strip()
Strip(s) ==
  LET keep == { i \in 1..Len(s) : s[i] \notin Whitespace }
  IN IF keep = {} THEN <<>>
     ELSE LET lo == CHOOSE i \in keep : \A j \in keep : i <= j
              hi == CHOOSE i \in keep : \A j \in keep : j <= i
          IN SubSeq(s, lo, hi)

\* sub in s
Contains(s, sub) ==
  \E i \in 1..(Len(s) - Len(sub) + 1) : SubSeq(s, i, i + Len(sub) - 1) = sub

Min(a, b) == IF a < b THEN a ELSE b

---------------------------------------------------------------------------
(* extract_pdf_data: the function body (lines 50-103)                      *)
(*                                                                         *)
(* A document is [exists, fault, toc, pages]: whether the path exists, the *)
(* operation of the PDF library that raises on it ("none" for a sound      *)
(* file), its embedded outline and the text of its pages.                  *)

max_toc_pages == 10
MIN_TOC_LINES == 3

TOC_HEADER == <<"Inhaltsverzeichnis von 'Öffentliches Gestalten':", "\n", "\n">>
TOC_ERROR ==
  <<"Konnte kein detailliertes Inhaltsverzeichnis extrahieren. Analyse basiert auf Volltext.">>
NotFound(pdf_path) ==
  <<"Fehler: Die Handbuchdatei '">> \o pdf_path \o <<"' wurde nicht gefunden.">>
PdfError(e) == <<"Fehler bei der PDF-Verarbeitung: ">> \o e

page_count(doc) == Len(doc.pages)
\* doc.load_page(page_num) raises
LoadFails(doc, page_num) ==
  doc.fault = "last_page" /\ page_num + 1 = page_count(doc)

\* mutant: a trailing digit is enough for a line of 3 characters
LooseTocLine(clean_line) ==
  \/ Contains(clean_line, <<".", ".", ".">>) /\ \E i \in 1..Len(clean_line) : clean_line[i] \in Digit
  \/ clean_line # <<>> /\ clean_line[Len(clean_line)] \in Digit /\ Len(clean_line) >= 3

\* the heuristic of lines 78 and 81
IsTocLine(clean_line) ==
  \/ Contains(clean_line, <<".", ".", ".">>) /\ \E i \in 1..Len(clean_line) : clean_line[i] \in Digit
  \/ clean_line # <<>> /\ clean_line[Len(clean_line)] \in Digit /\ Len(clean_line) > 3

\* lines 75-84 over the lines of one page: the text appended and the lines counted
RECURSIVE ScanLines(_)
ScanLines(lines) ==
  IF lines = <<>> THEN [text |-> <<>>, found |-> 0]
  ELSE LET clean_line == Strip(Head(lines))
           rest == ScanLines(Tail(lines))
       IN IF IsTocLine(clean_line)
            THEN [text |-> <<"- ">> \o clean_line \o <<"\n">> \o rest.text,
                  found |-> 1 + rest.found]
            ELSE rest

\* mutant: the indentation follows level, not level - 1
IndentByLevel(level) == Repeat(<<" ", " ">>, level)

\* line 65
Indent(level) == Repeat(<<" ", " ">>, level - 1)

\* lines 64-66
RECURSIVE RenderToc(_)
RenderToc(toc) ==
  IF toc = <<>> THEN <<>>
  ELSE LET entry == Head(toc)
       IN Indent(entry.level) \o <<"- ">> \o entry.title \o <<" (Seite ">>
            \o IntToStr(entry.page) \o <<")", "\n">> \o RenderToc(Tail(toc))

\* line 95
PageBlock(page_num, page_text) ==
  <<"\n", "\n", "[Seite ">> \o IntToStr(page_num + 1) \o <<"]", "\n">> \o page_text

\* the position of one call in the body, and the locals it works on
NoRet == <<>>
Ctl(pc, i) == [pc |-> pc, i |-> i, ret |-> NoRet, existed |-> TRUE,
               raised |-> FALSE, opened |-> FALSE]

\* lines 50-56
Begin(doc) ==
  LET locals == [toc_text |-> Some(TOC_HEADER), full_text |-> <<>>,
                 toc_error |-> None, pdf_error |-> None, found_toc_lines |-> 0]
  IN IF ~doc.exists
       THEN [ctl |-> [Ctl("done", 0) EXCEPT
                        !.ret = <<None, None, Some(NotFound(PDF_PATH)), None>>,
                        !.existed = FALSE],
             locals |-> locals]
       ELSE [ctl |-> Ctl("open", 0), locals |-> locals]

\* lines 99-101
Raise(f, e) ==
  LET pdf_error == Some(PdfError(e))
  IN [ctl |-> [f.ctl EXCEPT !.pc = "done", !.raised = TRUE,
                            !.ret = <<None, None, f.locals.toc_error, pdf_error>>],
      locals |-> [f.locals EXCEPT !.pdf_error = pdf_error]]

\* lines 59-70
OpenStep(f, doc) ==
  LET g == [f EXCEPT !.ctl.opened = TRUE]
  IN IF doc.fault = "open" THEN Raise(g, <<"cannot open broken document">>)
     ELSE IF doc.fault = "get_toc" THEN Raise(g, <<"bad outline">>)
     ELSE IF doc.toc # <<>>
       THEN [ctl |-> [g.ctl EXCEPT !.pc = "text", !.i = 0],
             locals |-> [g.locals EXCEPT
                           !.toc_text = Some(g.locals.toc_text.val \o RenderToc(doc.toc))]]
       ELSE [ctl |-> [g.ctl EXCEPT !.pc = "scan", !.i = 0],
             locals |-> [g.locals EXCEPT !.found_toc_lines = 0]]

\* line 86
TooFewLines(found_toc_lines) == found_toc_lines < MIN_TOC_LINES

\* lines 71-88: one page of the fallback scan, or the test after the loop
ScanStep(f, doc) ==
  IF f.ctl.i < Min(max_toc_pages, page_count(doc))
    THEN IF LoadFails(doc, f.ctl.i) THEN Raise(f, <<"bad page">>)
         ELSE LET r == ScanLines(Split(doc.pages[f.ctl.i + 1], "\n"))
              IN [ctl |-> [f.ctl EXCEPT !.i = @ + 1],
                  locals |-> [f.locals EXCEPT
                                !.toc_text = Some(f.locals.toc_text.val \o r.text),
                                !.found_toc_lines = @ + r.found]]
    ELSE IF TooFewLines(f.locals.found_toc_lines)
      THEN [ctl |-> [f.ctl EXCEPT !.pc = "text", !.i = 0],
            locals |-> [f.locals EXCEPT !.toc_error = Some(TOC_ERROR), !.toc_text = None]]
      ELSE [ctl |-> [f.ctl EXCEPT !.pc = "text", !.i = 0], locals |-> f.locals]

\* lines 91-95: one page of the full text, or the end of the loop
TextStep(f, doc) ==
  IF f.ctl.i < page_count(doc)
    THEN IF LoadFails(doc, f.ctl.i) THEN Raise(f, <<"bad page">>)
         ELSE [ctl |-> [f.ctl EXCEPT !.i = @ + 1],
               locals |-> [f.locals EXCEPT
                             !.full_text = @ \o PageBlock(f.ctl.i, doc.pages[f.ctl.i + 1])]]
    ELSE [ctl |-> [f.ctl EXCEPT !.pc = "close"], locals |-> f.locals]

\* lines 97 and 103
CloseStep(f, doc) ==
  IF doc.fault = "close" THEN Raise(f, <<"cannot close">>)
  ELSE [ctl |-> [f.ctl EXCEPT !.pc = "done",
                   !.ret = <<Some(f.locals.full_text), f.locals.toc_text,
                             f.locals.toc_error, f.locals.pdf_error>>],
        locals |-> f.locals]

BodyStep(f, doc) ==
  CASE f.ctl.pc = "open" -> OpenStep(f, doc)
    [] f.ctl.pc = "scan" -> ScanStep(f, doc)
    [] f.ctl.pc = "text" -> TextStep(f, doc)
    [] f.ctl.pc = "close" -> CloseStep(f, doc)
    [] OTHER -> f

RECURSIVE RunBody(_, _)
RunBody(f, doc) == IF f.ctl.pc = "done" THEN f ELSE RunBody(BodyStep(f, doc), doc)

\* one uninterrupted execution of the body
extract_body(doc) == RunBody(Begin(doc), doc).ctl

---------------------------------------------------------------------------
(* @st.cache_data(ttl=3600) around extract_pdf_data (line 44) *)

ttl == 3600

Origin(existed, raised) == [existed |-> existed, raised |-> raised]
EmptyCache == [present |-> FALSE, value |-> NoRet, stored_at |-> 0,
               origin |-> Origin(FALSE, FALSE)]

\* mutant: nothing is ever served from the cache
NeverValid(entry, t) == FALSE

\* an entry is served until ttl seconds after it was stored
CacheValid(entry, t) == entry.present /\ t < entry.stored_at + ttl

\* extract_pdf_data(pdf_path) at time t: the stored tuple, or the body's result stored
extract_pdf_data(entry, t, d) ==
  IF CacheValid(entry, t)
    THEN [ret |-> entry.value, hit |-> TRUE, opened |-> FALSE,
          origin |-> entry.origin, cache |-> entry]
    ELSE LET r == extract_body(d)
         IN [ret |-> r.ret, hit |-> FALSE, opened |-> r.opened,
             origin |-> Origin(r.existed, r.raised),
             cache |-> [present |-> TRUE, value |-> r.ret, stored_at |-> t,
                        origin |-> Origin(r.existed, r.raised)]]

---------------------------------------------------------------------------
(* Documents *)

MaxPages == 11
MaxTocLen == 2
MaxLevel == 3
MaxCalls == 2
MaxTicks == 2

PageOne ==
  <<" ", "a", ".", ".", ".", "1", " ", "\n", "a", "b", "1", "\n", "x", ".", ".", ".", "y">>
PageThree ==
  <<"K", "a", "p", " ", "2", "\n", "\t", "1", ".", ".", "b", "3", "\n",
    "2", ".", ".", ".", "z">>
PageNone ==
  <<" ", "a", "b", "1", " ", "\n", " ", "1", "2", " ", "\n", ".", ".", ".">>
PageTexts == {PageOne, PageThree, PageNone}

Faults == {"none", "open", "get_toc", "last_page", "close"}

\* n pages: the same page n - 1 times, and a last page
PagesOf(n, a, c) == [i \in 1..n |-> IF i = n THEN c ELSE a]
PageSeqs == { PagesOf(n, a, c) : n \in 0..MaxPages, a \in PageTexts, c \in PageTexts }

\* outlines of 1..MaxTocLen entries with levels 1..MaxLevel
LevelSeqs == UNION { [1..k -> 1..MaxLevel] : k \in 1..MaxTocLen }
TocOf(levels) ==
  [i \in 1..Len(levels) |->
     [level |-> levels[i], title |-> <<"T", DigitChar(i)>>, page |-> 6 * i]]

DocsWithoutToc ==
  { [exists |-> TRUE, fault |-> f, toc |-> <<>>, pages |-> p] :
      f \in Faults, p \in PageSeqs }
DocsWithToc ==
  { [exists |-> TRUE, fault |-> f, toc |-> TocOf(l), pages |-> p] :
      f \in Faults, l \in LevelSeqs, p \in {<<>>, <<PageThree, PageOne>>} }
Documents == DocsWithoutToc \cup DocsWithToc

IdleDoc == [exists |-> FALSE, fault |-> "none", toc |-> <<>>, pages |-> <<>>]

---------------------------------------------------------------------------
(* Sessions calling extract_pdf_data at the same time *)

NumSessions == 2
Sessions == 1..NumSessions

\* mutant: the locals are shared by all calls, like module globals
SharedFrame(s) == 1

\* each call has its own locals
FrameOf(s) == s

IdleSession == [pc |-> "idle", ctl |-> Ctl("done", 0), got |-> NoRet, hit |-> FALSE]
NoLocals == [toc_text |-> None, full_text |-> <<>>, toc_error |-> None,
             pdf_error |-> None, found_toc_lines |-> 0]

RaceIdle ==
  /\ sess = [s \in Sessions |-> IdleSession]
  /\ frame = [s \in Sessions |-> NoLocals]

---------------------------------------------------------------------------
(* Actions of SpecPdf *)

NoCallYet == [ret |-> NoRet, hit |-> FALSE, opened |-> FALSE,
              origin |-> Origin(FALSE, FALSE), at |-> 0, entry_at |-> -1,
              existed |-> FALSE]

\* one call extract_pdf_data(PDF_PATH)
CallExtract ==
  /\ pdf.calls < MaxCalls
  /\ LET r == extract_pdf_data(cache, now, document)
     IN /\ cache' = r.cache
        /\ pdf' = [calls |-> pdf.calls + 1,
                   opens |-> pdf.opens + (IF r.opened THEN 1 ELSE 0),
                   prev |-> pdf.last,
                   last |-> [ret |-> r.ret, hit |-> r.hit, opened |-> r.opened,
                             origin |-> r.origin, at |-> now,
                             entry_at |-> IF cache.present THEN cache.stored_at ELSE -1,
                             existed |-> document.exists]]
  /\ UNCHANGED <<document, now>>
  /\ UNCHANGED appVars
  /\ UNCHANGED raceVars

\* half of the expiry time passes
Tick ==
  /\ now < MaxTicks * (ttl \div 2)
  /\ now' = now + ttl \div 2
  /\ UNCHANGED <<document, cache, pdf>>
  /\ UNCHANGED appVars
  /\ UNCHANGED raceVars

\* the file is removed from the path, or put back
PathChange ==
  /\ document' = [document EXCEPT !.exists = ~@]
  /\ UNCHANGED <<cache, now, pdf>>
  /\ UNCHANGED appVars
  /\ UNCHANGED raceVars

PdfIdle ==
  /\ document = IdleDoc
  /\ cache = EmptyCache
  /\ now = 0
  /\ pdf = [calls |-> 0, opens |-> 0, prev |-> NoCallYet, last |-> NoCallYet]

AppIdle ==
  /\ API_KEY = None
  /\ clientOK = TRUE
  /\ pdfFile = None
  /\ session_state = [pdf_initialized |-> FALSE, pdf_data |-> None]
  /\ ui = <<>>
  /\ stats = [runs |-> 0, submissions |-> 0, accepted |-> 0, direct |-> 0, outbound |-> 0]
  /\ last = [op |-> "none", submitted |-> FALSE, desc |-> <<>>,
             svc |-> [kind |-> "unused", text |-> <<>>],
             fileOK |-> FALSE, initialized |-> FALSE, invoked |-> FALSE, call |-> NoCall]

InitPdf ==
  /\ AppIdle
  /\ RaceIdle
  /\ document \in Documents
  /\ cache = EmptyCache
  /\ now = 0
  /\ pdf = [calls |-> 0, opens |-> 0, prev |-> NoCallYet, last |-> NoCallYet]

NextPdf == CallExtract \/ Tick \/ PathChange

SpecPdf == InitPdf /\ [][NextPdf]_vars

---------------------------------------------------------------------------
(* Actions of SpecRace *)

\* the cache lookup of a call; on a miss the body starts (lines 50-56)
Lookup(s) ==
  /\ sess[s].pc = "idle"
  /\ IF CacheValid(cache, now)
       THEN /\ sess' = [sess EXCEPT ![s] = [pc |-> "done", ctl |-> Ctl("done", 0),
                                            got |-> cache.value, hit |-> TRUE]]
            /\ UNCHANGED frame
       ELSE LET f == Begin(document)
            IN /\ sess' = [sess EXCEPT ![s] = [pc |-> "running", ctl |-> f.ctl,
                                               got |-> NoRet, hit |-> FALSE]]
               /\ frame' = [frame EXCEPT ![FrameOf(s)] = f.locals]
  /\ pdf' = [pdf EXCEPT !.calls = @ + 1]
  /\ UNCHANGED <<document, cache, now>>
  /\ UNCHANGED appVars

\* one step of the body, on the locals of the call
RunStep(s) ==
  /\ sess[s].pc = "running"
  /\ sess[s].ctl.pc # "done"
  /\ LET f == BodyStep([ctl |-> sess[s].ctl, locals |-> frame[FrameOf(s)]], document)
     IN /\ sess' = [sess EXCEPT ![s].ctl = f.ctl]
        /\ frame' = [frame EXCEPT ![FrameOf(s)] = f.locals]
        /\ pdf' = [pdf EXCEPT !.opens = @ + (IF f.ctl.opened /\ ~sess[s].ctl.opened
                                               THEN 1 ELSE 0)]
  /\ UNCHANGED <<document, cache, now>>
  /\ UNCHANGED appVars

\* the body has returned: the tuple is stored and handed to the caller
StoreAndReturn(s) ==
  /\ sess[s].pc = "running"
  /\ sess[s].ctl.pc = "done"
  /\ cache' = [present |-> TRUE, value |-> sess[s].ctl.ret, stored_at |-> now,
               origin |-> Origin(sess[s].ctl.existed, sess[s].ctl.raised)]
  /\ sess' = [sess EXCEPT ![s].pc = "done", ![s].got = sess[s].ctl.ret]
  /\ UNCHANGED <<document, now, pdf, frame>>
  /\ UNCHANGED appVars

RaceDocuments ==
  { [exists |-> e, fault |-> f, toc |-> t, pages |-> p] :
      e \in BOOLEAN, f \in {"none", "close"}, t \in {<<>>, TocOf(<<1, 2>>)},
      p \in {<<PageOne>>, <<PageThree, PageOne>>} }

\* what an earlier version of the file left in the cache
StaleEntry ==
  [present |-> TRUE, value |-> <<Some(<<>>), None, Some(TOC_ERROR), None>>,
   stored_at |-> 0, origin |-> Origin(TRUE, FALSE)]

InitRace ==
  /\ AppIdle
  /\ document \in RaceDocuments
  /\ cache \in {EmptyCache, StaleEntry}
  /\ now = ttl
  /\ pdf = [calls |-> 0, opens |-> 0, prev |-> NoCallYet, last |-> NoCallYet]
  /\ RaceIdle

NextRace == \E s \in Sessions : Lookup(s) \/ RunStep(s) \/ StoreAndReturn(s)

SpecRace == InitRace /\ [][NextRace]_vars

---------------------------------------------------------------------------
(* Actions of Spec *)

Bump(field, n) == [stats EXCEPT ![field] = @ + n]

\* one script run of main(); a click can only come from a rendered form
MainRun(submit_button, problem_description, svc) ==
  /\ stats.runs < MaxRuns
  /\ submit_button => Shown(FORM)
  /\ LET r == main(submit_button, problem_description, svc)
     IN /\ ui' = r.ui
        /\ session_state' = r.ss
        /\ stats' = [runs |-> stats.runs + 1,
                     submissions |-> stats.submissions + (IF r.submitted THEN 1 ELSE 0),
                     accepted |-> stats.accepted + (IF r.invoked THEN 1 ELSE 0),
                     direct |-> stats.direct,
                     outbound |-> stats.outbound + r.call.requests]
        /\ last' = [op |-> "main", submitted |-> r.submitted,
                    desc |-> IF r.submitted THEN problem_description ELSE <<>>,
                    svc |-> IF r.invoked THEN svc ELSE [kind |-> "unused", text |-> <<>>],
                    fileOK |-> pdfFile.some,
                    initialized |-> session_state.pdf_initialized,
                    invoked |-> r.invoked, call |-> r.call]
  /\ UNCHANGED <<API_KEY, clientOK, pdfFile>>
  /\ UNCHANGED pdfVars
  /\ UNCHANGED raceVars

\* get_ai_suggestions called on its own, outside main()
DirectCall(problem_description, svc) ==
  /\ stats.runs < MaxRuns
  /\ LET c == get_ai_suggestions(problem_description, svc)
     IN /\ ui' = c.shown
        /\ stats' = [stats EXCEPT !.runs = @ + 1, !.direct = @ + 1,
                                  !.outbound = @ + c.requests]
        /\ last' = [op |-> "direct", submitted |-> FALSE, desc |-> problem_description,
                    svc |-> svc, fileOK |-> pdfFile.some,
                    initialized |-> session_state.pdf_initialized,
                    invoked |-> TRUE, call |-> c]
  /\ UNCHANGED <<API_KEY, clientOK, pdfFile, session_state>>
  /\ UNCHANGED pdfVars
  /\ UNCHANGED raceVars

\* the file at PDF_PATH is removed or put back between runs
FileChange ==
  /\ pdfFile' = IF pdfFile.some THEN None ELSE Some(PDF_BYTES)
  /\ UNCHANGED <<API_KEY, clientOK, session_state, ui, stats, last>>
  /\ UNCHANGED pdfVars
  /\ UNCHANGED raceVars

AppInit ==
  /\ API_KEY \in {None, Some(<<>>), Some(<<"k", "e", "y">>)}
  /\ clientOK \in BOOLEAN
  /\ pdfFile \in {None, Some(PDF_BYTES)}
  /\ session_state = [pdf_initialized |-> FALSE, pdf_data |-> None]
  /\ ui = <<>>
  /\ stats = [runs |-> 0, submissions |-> 0, accepted |-> 0, direct |-> 0, outbound |-> 0]
  /\ last = [op |-> "none", submitted |-> FALSE, desc |-> <<>>,
             svc |-> [kind |-> "unused", text |-> <<>>],
             fileOK |-> pdfFile.some, initialized |-> FALSE,
             invoked |-> FALSE, call |-> NoCall]

Init == AppInit /\ PdfIdle /\ RaceIdle

Next ==
  \/ \E b \in BOOLEAN, d \in Descriptions, svc \in ServiceOutcomes : MainRun(b, d, svc)
  \/ \E d \in Descriptions, svc \in ServiceOutcomes : DirectCall(d, svc)
  \/ FileChange

Spec == Init /\ [][Next]_vars

---------------------------------------------------------------------------
(* Claims about main() and get_ai_suggestions, checked under Spec *)

LastSubmitted == last.op = "main" /\ last.submitted
HasResultCard == \E i \in 1..Len(ui) : IsResultCard(ui[i])
HasApiDiagnostic ==
  \E i \in 1..Len(ui) :
    /\ ui[i].kind = "error"
    /\ ui[i].body # <<>>
    /\ ui[i].body[1] = "Fehler bei der Kommunikation mit der Gemini API: "
\* a step of the try block of the last invocation failed
CallFailed ==
  /\ last.invoked
  /\ Truthy(API_KEY)
  /\ \/ ~clientOK
     \/ ~last.fileOK
     \/ last.svc.kind \in {"request_raises", "text_raises"}

\* C1: a submission whose description is empty or shorter than 20 characters
\* never invokes get_ai_suggestions (no request either) and shows the validation
\* warning; a description of exactly 20 characters is not stopped by the gate.
C1_ShortNeverInvokes ==
  LastSubmitted =>
    /\ (last.desc = <<>> \/ Len(last.desc) < 20) =>
         /\ ~last.invoked
         /\ last.call.requests = 0
         /\ Shown(WARN_TOO_SHORT)
    /\ Len(last.desc) = 20 =>
         /\ ~Shown(WARN_TOO_SHORT)
         /\ (Truthy(API_KEY) => last.invoked)

C1_Witness ==
  /\ LastSubmitted
  /\ Len(last.desc) = 19
  /\ Truthy(API_KEY)
  /\ Shown(WARN_TOO_SHORT)
  /\ stats.submissions >= 2

\* C2: with the credential absent, a submission of 20 characters or more shows
\* the configuration error and no request is ever sent, through main()'s guard
\* and through get_ai_suggestions' own guard when it is called directly.
C2_NoKeyNoRequest ==
  ~Truthy(API_KEY) =>
    /\ stats.outbound = 0
    /\ last.call.requests = 0
    /\ (LastSubmitted /\ ~(last.desc = <<>> \/ Len(last.desc) < 20)) =>
         /\ Shown(ERR_KEY_MISSING_MAIN)
         /\ ~last.invoked
         /\ ~HasResultCard
    /\ last.op = "direct" =>
         /\ Shown(ERR_KEY_NOT_CONFIGURED)
         /\ last.call.ret = None

C2_Witness ==
  /\ ~Truthy(API_KEY)
  /\ LastSubmitted
  /\ Len(last.desc) >= 20
  /\ Shown(ERR_KEY_MISSING_MAIN)
  /\ stats.direct >= 1

\* C3: one handler sends at most one request, a failed request is not sent
\* again, a submission with a valid description, a credential and a readable
\* document sends exactly one, and the requests sent never outnumber the
\* invocations (accepted submissions and direct calls).
C3_AtMostOneRequest ==
  /\ last.call.requests <= 1
  /\ (LastSubmitted /\ Len(last.desc) >= 20 /\ Truthy(API_KEY) /\ last.fileOK)
       => last.call.requests = 1
  /\ stats.outbound <= stats.accepted + stats.direct
  /\ (stats.direct = 0 => stats.outbound <= stats.accepted)

C3_Witness ==
  /\ LastSubmitted
  /\ last.svc.kind = "request_raises"
  /\ last.call.requests = 1
  /\ stats.outbound = stats.accepted
  /\ stats.accepted >= 2

\* C4: a failure inside get_ai_suggestions after the credential check is caught
\* there: a diagnostic is shown, None is returned, nothing is raised to main();
\* main() then shows the 'no suggestions' error and no result container.
C4_FailureCaught ==
  CallFailed =>
    /\ ~last.call.raised
    /\ last.call.ret = None
    /\ HasApiDiagnostic
    /\ ~HasResultCard
    /\ ~Shown(UNCAUGHT)
    /\ last.op = "main" => Shown(ERR_NO_SUGGESTIONS) /\ Shown(FOOTER)

C4_Witness ==
  /\ CallFailed
  /\ last.op = "main"
  /\ last.svc.kind = "text_raises"
  /\ last.call.requests = 1
  /\ Shown(ERR_NO_SUGGESTIONS)

\* C5 (as claimed): when the call succeeds with text T, T is returned unmodified
\* and main() shows exactly T in the result container, for every T, the empty T
\* included; the 'no suggestions' error is shown only when the call failed.
C5_SuccessDisplayed ==
  /\ (last.invoked /\ Truthy(API_KEY) /\ ~CallFailed) =>
       /\ last.call.ret = Some(last.svc.text)
       /\ last.op = "main" =>
            /\ Shown(ResultCard(last.svc.text))
            /\ \A i \in 1..Len(ui) : IsResultCard(ui[i]) => ui[i] = ResultCard(last.svc.text)
  /\ (last.op = "main" /\ Shown(ERR_NO_SUGGESTIONS)) => CallFailed

---------------------------------------------------------------------------
(* Claims about extract_pdf_data, checked under SpecPdf *)

LastRet == pdf.last.ret
\* a call was made on a file that existed and whose outline could be read
OutlineRead ==
  /\ pdf.calls >= 1
  /\ pdf.last.origin.existed
  /\ document.fault \notin {"open", "get_toc"}

\* a candidate line in the words of the claim
Candidate(line) ==
  \/ /\ \E i \in 1..(Len(line) - 2) : line[i] = "." /\ line[i + 1] = "." /\ line[i + 2] = "."
     /\ \E i \in 1..Len(line) : line[i] \in Digit
  \/ /\ line # <<>>
     /\ line[Len(line)] \in Digit
     /\ Len(line) > 3

RECURSIVE CandidatesIn(_)
CandidatesIn(lines) ==
  IF lines = <<>> THEN <<>>
  ELSE (IF Candidate(Strip(Head(lines))) THEN <<Strip(Head(lines))>> ELSE <<>>)
         \o CandidatesIn(Tail(lines))

\* the candidates of pages 1..k, page by page
RECURSIVE CandidatesUpTo(_, _)
CandidatesUpTo(pages, k) ==
  IF k = 0 THEN <<>>
  ELSE CandidatesUpTo(pages, k - 1) \o CandidatesIn(Split(pages[k], "\n"))

ExpectedCandidates ==
  CandidatesUpTo(document.pages,
                 IF Len(document.pages) < 10 THEN Len(document.pages) ELSE 10)

\* the lines of an outline text below its heading
ListedLines(toc_text) ==
  LET below == SubSeq(toc_text, Len(TOC_HEADER) + 1, Len(toc_text))
      parts == Split(below, "\n")
  IN SubSeq(parts, 1, Len(parts) - 1)
HasHeading(toc_text) ==
  Len(toc_text) >= Len(TOC_HEADER) /\ SubSeq(toc_text, 1, Len(TOC_HEADER)) = TOC_HEADER
Bulleted(lines) == [i \in 1..Len(lines) |-> <<"- ">> \o lines[i]]

FallbackOutcome ==
  IF Len(ExpectedCandidates) < 3
    THEN LastRet[2] = None /\ LastRet[3] = Some(TOC_ERROR)
    ELSE /\ LastRet[3] = None
         /\ LastRet[2].some
         /\ HasHeading(LastRet[2].val)
         /\ ListedLines(LastRet[2].val) = Bulleted(ExpectedCandidates)

\* C6 (as claimed): for every document without an embedded outline the result
\* is decided by the candidate lines of the first min(10, page_count) pages:
\* fewer than 3, no outline and the warning; otherwise no warning and exactly
\* the candidate lines in document order, each once.
C6_FallbackAlways ==
  (OutlineRead /\ document.toc = <<>>) => FallbackOutcome

\* C6 (amended): the same, for documents that are opened and read without an
\* exception.
C6_FallbackOutline ==
  (OutlineRead /\ document.toc = <<>> /\ ~pdf.last.origin.raised) => FallbackOutcome

C6_Witness ==
  /\ OutlineRead
  /\ document.toc = <<>>
  /\ ~pdf.last.origin.raised
  /\ Len(document.pages) = 11
  /\ document.pages[11] = PageThree
  /\ document.pages[1] = PageOne
  /\ LastRet[2].some
  /\ Len(ListedLines(LastRet[2].val)) = 10

LeadingBlanks(line) ==
  IF \A i \in 1..Len(line) : line[i] = " " THEN Len(line)
  ELSE (CHOOSE i \in 1..Len(line) : line[i] # " " /\ \A j \in 1..(i - 1) : line[j] = " ") - 1
EntryText(entry) ==
  <<"- ">> \o entry.title \o <<" (Seite ">> \o IntToStr(entry.page) \o <<")">>

EmbeddedOutcome ==
  /\ LastRet[3] = None
  /\ LastRet[2].some
  /\ HasHeading(LastRet[2].val)
  /\ LET lines == ListedLines(LastRet[2].val)
         toc == document.toc
     IN /\ Len(lines) = Len(toc)
        /\ \A i \in 1..Len(toc) :
             /\ LeadingBlanks(lines[i]) = 2 * (toc[i].level - 1)
             /\ SubSeq(lines[i], LeadingBlanks(lines[i]) + 1, Len(lines[i])) = EntryText(toc[i])
        /\ \A i, j \in 1..Len(toc) :
             toc[i].level < toc[j].level => LeadingBlanks(lines[i]) <= LeadingBlanks(lines[j])

\* C7 (as claimed): for every document with a non-empty embedded outline the
\* outline text has one line per entry, in order, indented by 2 * (level - 1)
\* blanks, with no fallback lines and no warning.
C7_EmbeddedAlways ==
  (OutlineRead /\ document.toc # <<>>) => EmbeddedOutcome

\* C7 (amended): the same, for documents that are opened and read without an
\* exception.
C7_EmbeddedOutline ==
  (OutlineRead /\ document.toc # <<>> /\ ~pdf.last.origin.raised) => EmbeddedOutcome

C7_Witness ==
  /\ OutlineRead
  /\ ~pdf.last.origin.raised
  /\ Len(document.toc) = 2
  /\ document.toc[1].level = 3
  /\ document.toc[2].level = 1
  /\ document.pages # <<>>
  /\ LastRet[2].some

\* C8: a call made while the entry stored by an earlier call is less than one
\* hour old returns the tuple the call before it returned and does not run the
\* body (no existence test, no open), whatever kind of result is stored; a call
\* made when no entry is stored or the entry is an hour old runs the body again.
C8_CachedWithinWindow ==
  pdf.calls >= 1 =>
    LET within == pdf.last.entry_at >= 0 /\ pdf.last.at - pdf.last.entry_at < 3600
    IN /\ within => /\ pdf.last.hit
                    /\ ~pdf.last.opened
                    /\ pdf.calls >= 2
                    /\ LastRet = pdf.prev.ret
       /\ ~within => /\ ~pdf.last.hit
                     /\ pdf.last.origin.existed = pdf.last.existed
                     /\ pdf.last.opened = pdf.last.existed
                     /\ cache.stored_at = pdf.last.at

C8_Witness ==
  /\ pdf.calls >= 2
  /\ pdf.last.hit
  /\ pdf.last.at > pdf.last.entry_at
  /\ pdf.last.origin.raised
  /\ ~pdf.last.existed
  /\ LastRet = pdf.prev.ret

\* C10 (as claimed): the full text is absent exactly when the path did not
\* exist or an exception occurred, and then the outline is absent too; an
\* exception is reported in the fatal-error component (the 4th), and a missing
\* path, found before the document is opened, is reported there as well and
\* not in the warning component (the 3rd).
C10_FatalErrorComponent ==
  pdf.calls >= 1 =>
    /\ (LastRet[1] = None) <=> (~pdf.last.origin.existed \/ pdf.last.origin.raised)
    /\ LastRet[1] = None => LastRet[2] = None
    /\ pdf.last.origin.raised => LastRet[4].some
    /\ ~pdf.last.origin.existed =>
         /\ LastRet[4] = Some(NotFound(PDF_PATH))
         /\ LastRet[3] = None

---------------------------------------------------------------------------
(* Claim about concurrent calls, checked under SpecRace *)

Sequential == extract_body(document).ret
Finished(s) == sess[s].pc = "done"

\* C9: when sessions call extract_pdf_data for the same path at the same time
\* after the entry has expired, under every interleaving each caller gets the
\* complete tuple one sequential computation produces, and every entry written
\* to the cache is that tuple; the race only costs repeated computations.
C9_RaceKeepsResult ==
  /\ \A s \in Sessions : Finished(s) => sess[s].got = Sequential
  /\ (\E s \in Sessions : Finished(s)) =>
       /\ cache.present
       /\ cache.stored_at = now
       /\ cache.value = Sequential
  /\ pdf.opens <= pdf.calls

C9_Witness ==
  /\ \A s \in Sessions : Finished(s) /\ ~sess[s].hit
  /\ pdf.opens >= 2
  /\ document.toc = <<>>
  /\ Len(document.pages) = 2
  /\ Sequential[2].some
  /\ cache.value = Sequential

---------------------------------------------------------------------------
(* Claim about a missing document in main(), checked under Spec *)

\* the last script run of main() found no file at PDF_PATH
RunWithoutDocument == last.op = "main" /\ ~last.fileOK
Blocked ==
  /\ Shown(ERR_PDF_NOT_LOADED)
  /\ ~Shown(FORM)
  /\ ~last.invoked
  /\ ~last.submitted

\* C11 (as claimed): every run of main() during which the document does not
\* exist shows the blocking error, renders no form and does not invoke
\* get_ai_suggestions, also after an earlier run of the session has set
\* 'pdf_initialized'.
C11_MissingAlwaysBlocks == RunWithoutDocument => Blocked

\* C11 (amended): a run during which the document does not exist is blocked
\* (blocking error, no form, no invocation, flag still unset) when the session
\* flag 'pdf_initialized' is not set at its start; when the flag is set the load
\* is skipped, the form is rendered, a valid submission with a credential
\* invokes get_ai_suggestions, and that invocation sends no request.
C11_MissingBlocksUntilInitialized ==
  RunWithoutDocument =>
    /\ ~last.initialized =>
         /\ Blocked
         /\ ~session_state.pdf_initialized
    /\ last.initialized =>
         /\ Shown(FORM)
         /\ ~Shown(ERR_PDF_NOT_LOADED)
         /\ session_state.pdf_initialized
         /\ last.call.requests = 0
         /\ (last.submitted /\ Len(last.desc) >= 20 /\ Truthy(API_KEY)) =>
              /\ last.invoked
              /\ Shown(ERR_NO_SUGGESTIONS)

C11_Witness ==
  /\ RunWithoutDocument
  /\ ~last.initialized
  /\ clientOK
  /\ Blocked
  /\ stats.runs >= 2
  /\ pdfFile.some

====
